---- MODULE Spec2Model ----
(***************************************************************************)
(* A model of the arithmetic quiz of src/src/main.rs: the MathQuizApp      *)
(* state, the frame handler `update` (timer, then the panel that is shown) *)
(* with the gestures it reacts to, `process_input`, and                    *)
(* `generate_problem`.                                                     *)
(*                                                                         *)
(* Strings are sequences of one-character strings, so that formatting a    *)
(* number and parsing the typed text are computed, not assumed.  Durations *)
(* are counted in whole seconds.                                           *)
(***************************************************************************)
EXTENDS Integers, Sequences, FiniteSets, TLC

VARIABLES
    question,        \* String: the rendered expression
    answer,          \* i32
    user_input,      \* String: the text of the input box
    score,           \* i32
    correct_answers, \* i32
    wrong_answers,   \* i32
    remaining_time,  \* Duration, in seconds
    start_time,      \* Option<Instant>: "None" or "Some"
    feedback,        \* String, as a sequence of pieces
    game_over,       \* bool
    is_pemdas,       \* bool
    pc,              \* position in update / in generate_problem
    gesture,         \* the gesture the panel handled in this frame
    num1, num2, num3 \* locals of generate_problem while it is being stepped

vars == <<question, answer, user_input, score, correct_answers, wrong_answers,
          remaining_time, start_time, feedback, game_over, is_pemdas, pc,
          gesture, num1, num2, num3>>

appVars == <<question, answer, user_input, score, correct_answers,
             wrong_answers, remaining_time, start_time, feedback, game_over,
             is_pemdas>>

(***************************************************************************)
(* Bounds of the model.                                                    *)
(***************************************************************************)
\* a correct answer is accepted by the model only while score < MaxScore
MaxScore == 6
\* a wrong or invalid answer is accepted only while wrong_answers < MaxWrong
MaxWrong == 1
\* the clock advances by 0..MaxElapsed seconds between two frames
MaxElapsed == 2
\* generate_problem is stepped on its own for the scores -2..MaxGenScore
MaxGenScore == 10
\* the round followed under fairness is taken up with LiveTime seconds left
LiveTime == 5

(***************************************************************************)
(* Text: Display of an i32, str::trim, str::parse::<i32>.                  *)
(***************************************************************************)
Digits == <<"0", "1", "2", "3", "4", "5", "6", "7", "8", "9">>

DigitSet == {Digits[i] : i \in 1..10}

DigitVal(c) == (CHOOSE i \in 1..10 : Digits[i] = c) - 1

RECURSIVE FormatNat(_)
FormatNat(n) ==
    IF n < 10 THEN <<Digits[n + 1]>>
    ELSE Append(FormatNat(n \div 10), Digits[(n % 10) + 1])

\* `{}` of an i32
FormatI32(n) == IF n < 0 THEN <<"-">> \o FormatNat(-n) ELSE FormatNat(n)

WhiteSpace == {" "}

RECURSIVE TrimStart(_)
TrimStart(s) ==
    IF s # <<>> /\ Head(s) \in WhiteSpace THEN TrimStart(Tail(s)) ELSE s

RECURSIVE TrimEnd(_)
TrimEnd(s) ==
    IF s # <<>> /\ s[Len(s)] \in WhiteSpace
    THEN TrimEnd(SubSeq(s, 1, Len(s) - 1))
    ELSE s

Trim(s) == TrimEnd(TrimStart(s))

RECURSIVE StripZeros(_)
StripZeros(ds) ==
    IF Len(ds) > 1 /\ Head(ds) = "0" THEN StripZeros(Tail(ds)) ELSE ds

RECURSIVE NatValue(_)
NatValue(ds) ==
    IF ds = <<>> THEN 0
    ELSE 10 * NatValue(SubSeq(ds, 1, Len(ds) - 1)) + DigitVal(ds[Len(ds)])

ParseErr == [ok |-> FALSE, value |-> 0]

\* the digits of a magnitude that fits an i32: at most 2147483647, or
\* 2147483648 behind a minus sign
ParseDigits(ds, negative) ==
    LET z == StripZeros(ds)
        n == Len(z)
        hi == NatValue(SubSeq(z, 1, n - 1))
        lo == DigitVal(z[n])
        limit == IF negative THEN 8 ELSE 7
    IN  IF n > 10 THEN ParseErr
        ELSE IF n = 10 /\ (hi > 214748364 \/ (hi = 214748364 /\ lo > limit))
        THEN ParseErr
        ELSE IF n = 10 /\ hi = 214748364 /\ lo = 8
        THEN [ok |-> TRUE, value |-> (-2147483647) - 1]
        ELSE [ok |-> TRUE,
              value |-> IF negative THEN -NatValue(z) ELSE NatValue(z)]

\* str::parse::<i32>: an optional sign, then one or more decimal digits
ParseI32(s) ==
    IF s = <<>> THEN ParseErr
    ELSE LET signed == Head(s) \in {"+", "-"}
             ds == IF signed THEN Tail(s) ELSE s
         IN  IF ds = <<>> THEN ParseErr
             ELSE IF \E i \in 1..Len(ds) : ds[i] \notin DigitSet THEN ParseErr
             ELSE ParseDigits(ds, Head(s) = "-")

(***************************************************************************)
(* generate_problem                                                        *)
(***************************************************************************)
\* the difficulty chosen from the score
DifficultyEarly(s) ==
    IF s < 4 THEN [min |-> 1, max |-> 10, include_complex_ops |-> FALSE]
    ELSE IF s < 10 THEN [min |-> 1, max |-> 20, include_complex_ops |-> TRUE]
    ELSE [min |-> 1, max |-> 50, include_complex_ops |-> TRUE]

DifficultyLate(s) ==
    IF s <= 5 THEN [min |-> 1, max |-> 10, include_complex_ops |-> FALSE]
    ELSE IF s <= 10 THEN [min |-> 1, max |-> 20, include_complex_ops |-> TRUE]
    ELSE [min |-> 1, max |-> 50, include_complex_ops |-> TRUE]

Difficulty(s) ==
    IF s < 5 THEN [min |-> 1, max |-> 10, include_complex_ops |-> FALSE]
    ELSE IF s < 10 THEN [min |-> 1, max |-> 20, include_complex_ops |-> TRUE]
    ELSE [min |-> 1, max |-> 50, include_complex_ops |-> TRUE]

\* a range that starts at zero whatever its lower end
GenRangeFromZero(min, max) == 0..max

\* rng.gen_range(min..=max)
GenRange(min, max) == min..max

\* the operands drawn when a problem is generated inside a frame: the two
\* ends of the range
OperandSample(min, max) == {min, max}

\* i32 division truncates toward zero
TruncDiv(a, b) ==
    LET q == (IF a < 0 THEN -a ELSE a) \div (IF b < 0 THEN -b ELSE b)
    IN  IF (a < 0) # (b < 0) THEN -q ELSE q

\* the draws that follow the operands: gen_bool(0.3), evaluated only when
\* include_complex_ops holds, and then the operator within its range
Rolls(include_complex_ops) ==
    {[complex |-> TRUE, operator |-> o] : o \in IF include_complex_ops THEN 0..1 ELSE {}}
    \cup {[complex |-> FALSE, operator |-> o] : o \in 0..3}

PemdasMul(n1, n2, n3) ==
    [question |-> FormatI32(n1) \o <<" ", "*", " ", "(">> \o FormatI32(n2)
                  \o <<" ", "+", " ">> \o FormatI32(n3) \o <<")">>,
     answer |-> n1 * (n2 + n3),
     is_pemdas |-> TRUE]

PemdasDiv(n1, n2, n3) ==
    [question |-> <<"(">> \o FormatI32(n1 + n3) \o <<" ", "-", " ">>
                  \o FormatI32(n2) \o <<")", " ", "/", " ">> \o FormatI32(n3),
     answer |-> IF n3 # 0 THEN TruncDiv(n1 + n3 - n2, n3) ELSE 0,
     is_pemdas |-> TRUE]

Binary(a, op, b, ans) ==
    [question |-> FormatI32(a) \o <<" ", op, " ">> \o FormatI32(b),
     answer |-> ans,
     is_pemdas |-> FALSE]

SimpleDiv(n1, n2) ==
    IF n2 # 0 THEN Binary(n1 * n2, "/", n2, n1)
    ELSE Binary(n1, "+", 1, n1 + 1)

\* the tuple generate_problem returns for the given draws
BuildProblem(n1, n2, n3, roll) ==
    IF roll.complex
    THEN IF roll.operator = 0 THEN PemdasMul(n1, n2, n3)
         ELSE PemdasDiv(n1, n2, n3)
    ELSE CASE roll.operator = 0 -> Binary(n1, "+", n2, n1 + n2)
           [] roll.operator = 1 -> Binary(n1, "-", n2, n1 - n2)
           [] roll.operator = 2 -> Binary(n1, "*", n2, n1 * n2)
           [] roll.operator = 3 -> SimpleDiv(n1, n2)

\* every tuple generate_problem returns at difficulty d for operands in range
Problems(d, range) ==
    {BuildProblem(n1, n2, n3, roll) :
        n1 \in range, n2 \in range, n3 \in range,
        roll \in Rolls(d.include_complex_ops)}

\* the problems of every score a round of the model can reach, by score
SampleProblems ==
    [s \in 0..(MaxScore + 1) |->
        Problems(Difficulty(s),
                 OperandSample(Difficulty(s).min, Difficulty(s).max))]

\* generate_problem with its operands drawn among the two ends of the range
generate_problem_flat(s) == SampleProblems[0]
generate_problem(s) == SampleProblems[s]

(***************************************************************************)
(* MathQuizApp                                                             *)
(***************************************************************************)
\* Duration::new(30, 0), the time a round starts with
InitialTime == 30

\* MathQuizApp::default() with the problem p = generate_problem(0)
SetDefaultKeepsInput(p) ==
    /\ question' = p.question
    /\ answer' = p.answer
    /\ UNCHANGED user_input
    /\ score' = 0
    /\ correct_answers' = 0
    /\ wrong_answers' = 0
    /\ remaining_time' = InitialTime
    /\ start_time' = "None"
    /\ feedback' = <<"Press Start to begin!">>
    /\ game_over' = FALSE
    /\ is_pemdas' = p.is_pemdas

SetDefault(p) ==
    /\ question' = p.question
    /\ answer' = p.answer
    /\ user_input' = <<>>
    /\ score' = 0
    /\ correct_answers' = 0
    /\ wrong_answers' = 0
    /\ remaining_time' = InitialTime
    /\ start_time' = "None"
    /\ feedback' = <<"Press Start to begin!">>
    /\ game_over' = FALSE
    /\ is_pemdas' = p.is_pemdas

Init ==
    /\ \E p \in generate_problem(0) :
        /\ question = p.question
        /\ answer = p.answer
        /\ is_pemdas = p.is_pemdas
    /\ user_input = <<>>
    /\ score = 0
    /\ correct_answers = 0
    /\ wrong_answers = 0
    /\ remaining_time = InitialTime
    /\ start_time = "None"
    /\ feedback = <<"Press Start to begin!">>
    /\ game_over = FALSE
    /\ pc = "update"
    /\ gesture = "none"
    /\ num1 = 0 /\ num2 = 0 /\ num3 = 0

\* the three states of a round
NotStarted == start_time = "None" /\ ~game_over
Running == start_time = "Some" /\ ~game_over
GameOver == game_over

\* elapsed >= self.remaining_time
ExpiredLate(elapsed, remaining) == elapsed > remaining
ExpiredEarly(elapsed, remaining) == elapsed + 1 >= remaining
Expired(elapsed, remaining) == elapsed >= remaining

\* the points of a correct answer
ScoreGainFlat(pemdas) == 1
ScoreGainSlip(pemdas) == IF pemdas THEN -2 ELSE 1
ScoreGain(pemdas) == IF pemdas THEN 2 ELSE 1

\* remaining_time += Duration::new(1, 0)
TimeBonus(remaining) == remaining + 1

\* remaining_time.checked_sub(Duration::new(2, 0)).unwrap_or(Duration::new(0, 0))
TimePenaltyOne(remaining) == IF remaining >= 1 THEN remaining - 1 ELSE 0
TimePenaltyUnchecked(remaining) == remaining - 2
TimePenaltyFloorOne(remaining) == IF remaining >= 3 THEN remaining - 2 ELSE 1
TimePenalty(remaining) == IF remaining >= 2 THEN remaining - 2 ELSE 0

\* the texts typed into the input box while the answer is ans: the answer,
\* the answer between blanks, another integer, a letter, digits beyond i32
TypedTexts(ans) ==
    { FormatI32(ans),
      <<" ">> \o FormatI32(ans) \o <<" ">>,
      FormatI32(ans + 1),
      <<"x">>,
      <<"2", "1", "4", "7", "4", "8", "3", "6", "4", "8">> }

\* a countdown that loses twice the time that passed
TimeLeftTwice(remaining, elapsed) == remaining - 2 * elapsed

\* a countdown that loses nothing
TimeLeftStuck(remaining, elapsed) == remaining

\* self.remaining_time -= elapsed
TimeLeft(remaining, elapsed) == remaining - elapsed

\* update, up to the panel: the countdown
Tick ==
    /\ pc = "update"
    /\ pc' = "panel"
    /\ gesture' = "none"
    /\ IF start_time = "Some"
       THEN \E elapsed \in 0..MaxElapsed :
               IF Expired(elapsed, remaining_time)
               THEN /\ game_over' = TRUE
                    /\ start_time' = "None"
                    /\ UNCHANGED remaining_time
               ELSE /\ remaining_time' = TimeLeft(remaining_time, elapsed)
                    /\ start_time' = "Some"
                    /\ UNCHANGED game_over
       ELSE UNCHANGED <<game_over, start_time, remaining_time>>
    /\ UNCHANGED <<question, answer, user_input, score, correct_answers,
                   wrong_answers, feedback, is_pemdas, num1, num2, num3>>

\* process_input
process_input ==
    LET parsed == ParseI32(Trim(user_input)) IN
    /\ IF parsed.ok
       THEN /\ IF parsed.value = answer
               THEN /\ score < MaxScore
                    /\ correct_answers' = correct_answers + 1
                    /\ score' = score + ScoreGain(is_pemdas)
                    /\ remaining_time' = TimeBonus(remaining_time)
                    /\ feedback' = <<"Correct!">>
                    /\ UNCHANGED wrong_answers
               ELSE /\ wrong_answers < MaxWrong
                    /\ wrong_answers' = wrong_answers + 1
                    /\ remaining_time' = TimePenalty(remaining_time)
                    /\ feedback' = <<"Wrong! The correct answer was ">>
                                   \o FormatI32(answer) \o <<".">>
                    /\ UNCHANGED <<score, correct_answers>>
            /\ \E p \in generate_problem(score') :
                /\ question' = p.question
                /\ answer' = p.answer
                /\ is_pemdas' = p.is_pemdas
       ELSE /\ wrong_answers < MaxWrong
            /\ wrong_answers' = wrong_answers + 1
            /\ remaining_time' = TimePenalty(remaining_time)
            /\ feedback' = <<"Invalid input. Try again!">>
            /\ UNCHANGED <<score, correct_answers, question, answer, is_pemdas>>
    /\ user_input' = <<>>

\* a frame of display_game in which the text of the input box is edited
TypeText ==
    /\ pc = "panel" /\ ~game_over
    /\ pc' = "update"
    /\ gesture' = "type"
    /\ \E text \in TypedTexts(answer) : user_input' = text
    /\ UNCHANGED <<question, answer, score, correct_answers, wrong_answers,
                   remaining_time, start_time, feedback, game_over, is_pemdas,
                   num1, num2, num3>>

\* an Enter that ends the round when it leaves no time
SubmitAnswerEndsRound ==
    /\ pc = "panel" /\ ~game_over
    /\ pc' = "update"
    /\ gesture' = "enter"
    /\ process_input
    /\ game_over' = (remaining_time' = 0)
    /\ start_time' = IF remaining_time' = 0 THEN "None" ELSE start_time
    /\ UNCHANGED <<num1, num2, num3>>

\* a frame of display_game in which Enter is pressed
SubmitAnswer ==
    /\ pc = "panel" /\ ~game_over
    /\ pc' = "update"
    /\ gesture' = "enter"
    /\ process_input
    /\ UNCHANGED <<start_time, game_over, num1, num2, num3>>

\* the Start button is part of the panel
StartVisibleInGame == ~game_over
StartVisible == start_time = "None" /\ ~game_over

\* a frame of display_game in which the Start button is clicked
Start ==
    /\ pc = "panel" /\ ~game_over
    /\ StartVisible
    /\ pc' = "update"
    /\ gesture' = "start"
    /\ start_time' = "Some"
    /\ feedback' = <<"Solve the problems!">>
    /\ UNCHANGED <<question, answer, user_input, score, correct_answers,
                   wrong_answers, remaining_time, game_over, is_pemdas,
                   num1, num2, num3>>

\* a Restart button shown by both panels
RestartAnywhere ==
    /\ pc = "panel"
    /\ pc' = "update"
    /\ gesture' = "restart"
    /\ \E p \in generate_problem(0) : SetDefault(p)
    /\ UNCHANGED <<num1, num2, num3>>

\* a frame of display_game_over in which the Restart button is clicked
Restart ==
    /\ pc = "panel" /\ game_over
    /\ pc' = "update"
    /\ gesture' = "restart"
    /\ \E p \in generate_problem(0) : SetDefault(p)
    /\ UNCHANGED <<num1, num2, num3>>

\* a frame without a gesture
NoGesture ==
    /\ pc = "panel"
    /\ pc' = "update"
    /\ gesture' = "none"
    /\ UNCHANGED <<appVars, num1, num2, num3>>

Next ==
    \/ Tick
    \/ TypeText
    \/ SubmitAnswer
    \/ Start
    \/ Restart
    \/ NoGesture

Spec == Init /\ [][Next]_vars

(***************************************************************************)
(* generate_problem on its own, one block at a time: the score it is       *)
(* called with, the three operands, then the tuple it returns.             *)
(***************************************************************************)
GenScores == (-2)..MaxGenScore

GenInit ==
    /\ score \in GenScores
    /\ pc = "generate"
    /\ gesture = "none"
    /\ num1 = 0 /\ num2 = 0 /\ num3 = 0
    /\ question = <<>>
    /\ answer = 0
    /\ is_pemdas = FALSE
    /\ user_input = <<>>
    /\ correct_answers = 0
    /\ wrong_answers = 0
    /\ remaining_time = InitialTime
    /\ start_time = "None"
    /\ feedback = <<>>
    /\ game_over = FALSE

\* the difficulty and the three gen_range draws
GenDraw ==
    /\ pc = "generate"
    /\ pc' = "drawn"
    /\ UNCHANGED gesture
    /\ LET d == Difficulty(score) IN
        /\ num1' \in GenRange(d.min, d.max)
        /\ num2' \in GenRange(d.min, d.max)
        /\ num3' \in GenRange(d.min, d.max)
    /\ UNCHANGED appVars

\* the kind of problem, the operator, and the tuple returned
GenBuild ==
    /\ pc = "drawn"
    /\ pc' = "returned"
    /\ \E roll \in Rolls(Difficulty(score).include_complex_ops) :
        LET p == BuildProblem(num1, num2, num3, roll) IN
        /\ question' = p.question
        /\ answer' = p.answer
        /\ is_pemdas' = p.is_pemdas
    /\ UNCHANGED <<user_input, score, correct_answers, wrong_answers,
                   remaining_time, start_time, feedback, game_over,
                   gesture, num1, num2, num3>>

GenNext ==
    \/ GenDraw
    \/ GenBuild

GenSpec == GenInit /\ [][GenNext]_vars

(***************************************************************************)
(* Claims                                                                  *)
(***************************************************************************)
\* the text of the input box is the decimal rendering of the answer,
\* possibly between blanks
InputIsAnswer == Trim(user_input) = FormatI32(answer)

\* the text of the input box reads as an i32 once trimmed
InputParses == ParseI32(Trim(user_input)).ok

\* the step is a frame in which Enter is handled
Entered == pc = "panel" /\ gesture' = "enter"

currentProblem ==
    [question |-> question, answer |-> answer, is_pemdas |-> is_pemdas]

\* C1: in Running, Enter on the text of the correct answer (blanks around it
\* allowed) adds 2 to score for a compound problem and 1 otherwise, adds one
\* second to remaining_time, adds 1 to correct_answers and leaves
\* wrong_answers as it is.
C1_CorrectAnswerScores ==
    [][(Entered /\ Running /\ InputIsAnswer) =>
        /\ score' = score + (IF is_pemdas THEN 2 ELSE 1)
        /\ remaining_time' = remaining_time + 1
        /\ correct_answers' = correct_answers + 1
        /\ wrong_answers' = wrong_answers]_vars

\* a correct answer to a compound problem has just been scored in a running
\* round
C1_Witness ==
    /\ Running /\ gesture = "enter"
    /\ feedback = <<"Correct!">>
    /\ score = 7 /\ correct_answers = 6

\* C2: in Running, Enter on a wrong integer or on text that is no integer
\* adds 1 to wrong_answers, sets remaining_time to max(0, remaining_time - 2)
\* and leaves score and correct_answers as they are, alike in both cases.
C2_WrongOrInvalidPenalized ==
    [][(Entered /\ Running /\ ~InputIsAnswer) =>
        /\ wrong_answers' = wrong_answers + 1
        /\ remaining_time' =
              (IF remaining_time - 2 > 0 THEN remaining_time - 2 ELSE 0)
        /\ score' = score
        /\ correct_answers' = correct_answers]_vars

\* an invalid text has just been penalized in a running round that had one
\* second left
C2_Witness ==
    /\ Running /\ gesture = "enter"
    /\ feedback = <<"Invalid input. Try again!">>
    /\ wrong_answers = 1
    /\ remaining_time = 0
    /\ score > 0

\* C3 as stated: in Running, every Enter, whichever branch it takes, replaces the problem
\* by a newly generated one (so a problem with another question can follow)
\* and clears the input box.
C3_EveryAnswerRegenerates ==
    (pc = "panel" /\ Running /\ ENABLED SubmitAnswer) =>
        ENABLED (SubmitAnswer /\ question' # question /\ user_input' = <<>>)

\* C3 as amended: every Enter clears the input box; on text that reads as an
\* integer the problem is replaced by one that generate_problem returns for
\* the score as just updated; on any other text the problem stays as it is.
C3_ParsedAnswerRegenerates ==
    [][Entered =>
        /\ user_input' = <<>>
        /\ IF InputParses
           THEN currentProblem' \in SampleProblems[score']
           ELSE currentProblem' = currentProblem]_vars

\* a wrong integer has just been answered at a score of the second tier and
\* the problem that followed is a compound one
C3_Witness ==
    /\ gesture = "enter"
    /\ feedback[1] = "Wrong! The correct answer was "
    /\ score >= 5
    /\ is_pemdas
    /\ user_input = <<>>

\* C4: Enter takes effect only in Running, so that in every NotStarted state
\* score, correct_answers and wrong_answers are 0 and remaining_time is 30.
C4_NotStartedIsFresh ==
    NotStarted =>
        /\ score = 0
        /\ correct_answers = 0
        /\ wrong_answers = 0
        /\ remaining_time = 30

\* C5: a timer step in Running that does not end the round leaves time on
\* the clock (so one whose elapsed time reaches remaining_time ends it), and
\* once the round is over nothing but Restart changes score, the counters,
\* remaining_time, the problem or game_over.
C5_GameOverOnceThenFrozen ==
    [][/\ (pc = "update" /\ Running) =>
            IF game_over'
            THEN start_time' = "None" /\ remaining_time <= MaxElapsed
            ELSE remaining_time' > 0 /\ remaining_time' <= remaining_time
       /\ (~game_over /\ game_over') => (pc = "update" /\ Running)
       /\ (game_over /\ gesture' # "restart") =>
            /\ game_over'
            /\ UNCHANGED <<score, correct_answers, wrong_answers,
                           remaining_time, question, answer, is_pemdas>>]_vars

\* the round is over and a frame has gone by since, with answers of both
\* kinds on the board
C5_Witness ==
    /\ game_over /\ pc = "update" /\ gesture = "none"
    /\ score > 0 /\ wrong_answers > 0

\* C6: remaining_time is never negative, and the countdown is not running
\* when the round is over.
C6_TimeNeverNegative ==
    /\ remaining_time >= 0
    /\ game_over => start_time = "None"

\* the round ended on a clock that a penalty had brought down to zero
C6_Witness ==
    /\ game_over
    /\ remaining_time = 0
    /\ wrong_answers > 0
    /\ feedback # <<"Correct!">>

\* C7: Restart in GameOver gives the state of a fresh start: score and both
\* counters 0, 30 seconds, not over, countdown not running, a problem of
\* score 0, an empty input box and the opening message.
C7_RestartIsFresh ==
    [][(game_over /\ gesture' = "restart") =>
        /\ score' = 0
        /\ correct_answers' = 0
        /\ wrong_answers' = 0
        /\ remaining_time' = 30
        /\ ~game_over'
        /\ start_time' = "None"
        /\ currentProblem' \in SampleProblems[0]
        /\ user_input' = <<>>
        /\ feedback' = <<"Press Start to begin!">>]_vars

\* Restart has just been handled
C7_Witness ==
    /\ gesture = "restart" /\ pc = "update"
    /\ NotStarted

\* C8: the round starts in NotStarted and changes state only from NotStarted
\* to Running by Start, from Running to GameOver by the timer, and from
\* GameOver to NotStarted by Restart; Start is handled in NotStarted only.
C8_RoundCycle ==
    /\ NotStarted
    /\ [][/\ (NotStarted /\ ~NotStarted') => (Running' /\ gesture' = "start")
          /\ (Running /\ ~Running') => (GameOver' /\ pc = "update")
          /\ (GameOver /\ ~GameOver') => (NotStarted' /\ gesture' = "restart")
          /\ (pc = "panel" /\ gesture' = "start") => NotStarted]_vars

\* a round that was started has run out without a wrong answer
C8_Witness ==
    /\ GameOver /\ pc = "panel"
    /\ feedback = <<"Correct!">>
    /\ wrong_answers = 0

\* C9: unless Restart is handled, score, correct_answers and wrong_answers
\* never decrease, and score changes only by Enter on the correct answer, and
\* then upward.
C9_ScoreMonotone ==
    [][gesture' # "restart" =>
        /\ score' >= score
        /\ correct_answers' >= correct_answers
        /\ wrong_answers' >= wrong_answers
        /\ score' # score => (Entered /\ InputIsAnswer /\ score' > score)]_vars

\* a wrong integer has just been answered in a running round and the score
\* earned before is still there
C9_Witness ==
    /\ Running /\ gesture = "enter"
    /\ feedback[1] = "Wrong! The correct answer was "
    /\ score = correct_answers
    /\ score > 0

\* the largest operand of the tier of score s, as the table of tiers has it
TierMax(s) == IF s < 5 THEN 10 ELSE IF s <= 9 THEN 20 ELSE 50

\* C10: the operands generate_problem draws lie in the range of the tier of
\* the score, 1..10 below 5 (and then the problem is never compound), 1..20
\* from 5 to 9, 1..50 from 10 on, every number of the range can be drawn for
\* each operand, and every score is in exactly one tier.
C10_TierOperands ==
    /\ Cardinality({t \in 1..3 : CASE t = 1 -> score < 5
                                   [] t = 2 -> 5 <= score /\ score <= 9
                                   [] t = 3 -> score >= 10}) = 1
    /\ pc = "generate" =>
        \A n \in 1..TierMax(score) :
            /\ ENABLED (GenDraw /\ num1' = n)
            /\ ENABLED (GenDraw /\ num2' = n)
            /\ ENABLED (GenDraw /\ num3' = n)
    /\ pc \in {"drawn", "returned"} =>
        /\ {num1, num2, num3} \subseteq 1..TierMax(score)
        /\ score < 5 => ~is_pemdas

\* a compound problem returned for the lowest score of the third tier, with
\* operands at both ends of its range
C10_Witness ==
    /\ pc = "returned"
    /\ score = 10
    /\ num1 = 50 /\ num2 = 1 /\ num3 = 50
    /\ is_pemdas

(***************************************************************************)
(* The value of a rendered expression: its tokens, then the usual grammar  *)
(* (a sum of terms, a term a product or quotient of factors, a factor a    *)
(* number or a parenthesised expression) over the rationals n/d, d = 0     *)
(* standing for no value.                                                  *)
(***************************************************************************)
RECURSIVE DigitRun(_)
DigitRun(s) ==
    IF s # <<>> /\ Head(s) \in DigitSet THEN 1 + DigitRun(Tail(s)) ELSE 0

RECURSIVE Tokens(_)
Tokens(s) ==
    IF s = <<>> THEN <<>>
    ELSE IF Head(s) = " " THEN Tokens(Tail(s))
    ELSE IF Head(s) \in DigitSet
    THEN LET k == DigitRun(s)
         IN  <<[sym |-> "n", val |-> NatValue(SubSeq(s, 1, k))]>>
             \o Tokens(SubSeq(s, k + 1, Len(s)))
    ELSE <<[sym |-> Head(s), val |-> 0]>> \o Tokens(Tail(s))

NoValue == [n |-> 0, d |-> 0]

RatAdd(a, b) ==
    IF a.d = 0 \/ b.d = 0 THEN NoValue
    ELSE [n |-> a.n * b.d + b.n * a.d, d |-> a.d * b.d]

RatSub(a, b) ==
    IF a.d = 0 \/ b.d = 0 THEN NoValue
    ELSE [n |-> a.n * b.d - b.n * a.d, d |-> a.d * b.d]

RatMul(a, b) ==
    IF a.d = 0 \/ b.d = 0 THEN NoValue
    ELSE [n |-> a.n * b.n, d |-> a.d * b.d]

RatDiv(a, b) ==
    IF a.d = 0 \/ b.d = 0 \/ b.n = 0 THEN NoValue
    ELSE IF b.n < 0 THEN [n |-> -(a.n * b.d), d |-> a.d * (-b.n)]
    ELSE [n |-> a.n * b.d, d |-> a.d * b.n]

RECURSIVE EvalExpr(_, _), EvalSum(_, _, _), EvalTerm(_, _), EvalProd(_, _, _),
          EvalFactor(_, _)

\* each returns the value read from token i on and the index after it
EvalFactor(t, i) ==
    IF t[i].sym = "n" THEN [v |-> [n |-> t[i].val, d |-> 1], i |-> i + 1]
    ELSE LET r == EvalExpr(t, i + 1) IN [v |-> r.v, i |-> r.i + 1]

EvalProd(t, acc, i) ==
    IF i <= Len(t) /\ t[i].sym \in {"*", "/"}
    THEN LET f == EvalFactor(t, i + 1)
         IN  EvalProd(t, IF t[i].sym = "*" THEN RatMul(acc, f.v)
                         ELSE RatDiv(acc, f.v), f.i)
    ELSE [v |-> acc, i |-> i]

EvalTerm(t, i) == LET f == EvalFactor(t, i) IN EvalProd(t, f.v, f.i)

EvalSum(t, acc, i) ==
    IF i <= Len(t) /\ t[i].sym \in {"+", "-"}
    THEN LET f == EvalTerm(t, i + 1)
         IN  EvalSum(t, IF t[i].sym = "+" THEN RatAdd(acc, f.v)
                        ELSE RatSub(acc, f.v), f.i)
    ELSE [v |-> acc, i |-> i]

EvalExpr(t, i) == LET f == EvalTerm(t, i) IN EvalSum(t, f.v, f.i)

\* the value of the expression written in s
Value(s) == EvalExpr(Tokens(s), 1).v

\* C11: for every problem generate_problem returns, answer is the value of
\* the rendered expression under the usual precedence.
C11_AnswerIsValue ==
    pc = "returned" =>
        LET v == Value(question) IN v.d # 0 /\ v.n = answer * v.d


\* C12: every division generate_problem renders is exact, so that the value
\* of every generated expression is an integer.
C12_ValueIsInteger ==
    pc = "returned" =>
        LET v == Value(question) IN v.d # 0 /\ v.n % v.d = 0


\* the numbers that follow a division sign in the token list t
Divisors(t) ==
    {t[i + 1].val : i \in {j \in 1..(Len(t) - 1) : t[j].sym = "/" /\ t[j + 1].sym = "n"}}

\* C13: the operands generate_problem draws are never zero, so neither the
\* num2 = 0 nor the num3 = 0 branch is taken and no rendered division has a
\* zero divisor.
C13_NoZeroDivisor ==
    /\ pc \in {"drawn", "returned"} => num2 # 0 /\ num3 # 0
    /\ pc = "returned" => 0 \notin Divisors(Tokens(question))

C13_Witness ==
    /\ pc = "returned"
    /\ Divisors(Tokens(question)) = {num3}
    /\ is_pemdas
    /\ num2 # num3


\* C14: the timer step of a frame leaves score, the two counts, the problem
\* and the feedback as they are; while the round runs and does not expire it
\* takes off remaining_time exactly the time that passed, which is less than
\* remaining_time, and keeps the countdown running; before Start it changes
\* nothing.
C14_TickFrame ==
    [][pc = "update" =>
        /\ UNCHANGED <<score, correct_answers, wrong_answers, feedback>>
        /\ currentProblem' = currentProblem
        /\ NotStarted => UNCHANGED appVars
        /\ (Running /\ ~game_over') =>
            /\ start_time' = "Some"
            /\ \E elapsed \in 0..MaxElapsed :
                /\ elapsed < remaining_time
                /\ remaining_time' = remaining_time - elapsed]_vars

C14_Witness ==
    /\ pc = "panel"
    /\ gesture = "none"
    /\ Running
    /\ remaining_time = InitialTime - MaxElapsed
    /\ score = 0
    /\ wrong_answers = 0


\* C15 as stated: in every state where the round is over remaining_time is
\* zero.
C15_GameOverTimeZero == game_over => remaining_time = 0

\* C15: the timer step that ends the round stops the countdown and leaves
\* remaining_time as it was, so that in every state where the round is over
\* the countdown is stopped and remaining_time is at most the time that
\* passed in that step.
C15_ExpiryKeepsTime ==
    [][/\ (pc = "update" /\ ~game_over /\ game_over') =>
            /\ start_time = "Some"
            /\ start_time' = "None"
            /\ remaining_time' = remaining_time
       /\ game_over' =>
            /\ start_time' = "None"
            /\ remaining_time' \in 0..MaxElapsed]_vars

C15_Witness ==
    /\ game_over
    /\ start_time = "None"
    /\ remaining_time = MaxElapsed


\* C16: an answer that is wrong or does not parse, entered while the round
\* runs with at most 2 seconds left, leaves remaining_time at exactly 0 with
\* the round still running and the frame finished; the timer step that comes
\* next ends the round whatever time has passed, so no answer can be entered
\* in between.
C16_ClampThenExpire ==
    [][/\ (Entered /\ Running /\ ~InputIsAnswer /\ remaining_time <= 2) =>
            /\ remaining_time' = 0
            /\ Running'
            /\ pc' = "update"
       /\ (pc = "update" /\ Running /\ remaining_time = 0) =>
            /\ game_over'
            /\ UNCHANGED <<score, correct_answers>>]_vars

C16_Witness ==
    /\ pc = "update"
    /\ gesture = "enter"
    /\ Running
    /\ remaining_time = 0
    /\ wrong_answers = 1
    /\ user_input = <<>>


\* C17 as stated: a Restart is possible in the panel of every frame, before
\* Start, while the round runs and when it is over.
C17_ResetFromAnyState == pc = "panel" => ENABLED Restart

\* C17: a Restart is handled only in a frame that shows the game-over panel;
\* every such frame can handle one, and it leaves the round not started, at
\* score 0 with both counts 0 and 30 seconds.
C17_ResetOnlyWhenOver ==
    [][/\ gesture' = "restart" =>
            /\ pc = "panel" /\ game_over
            /\ NotStarted'
            /\ score' = 0 /\ correct_answers' = 0 /\ wrong_answers' = 0
            /\ remaining_time' = InitialTime
       /\ (pc = "panel" /\ game_over) => ENABLED Restart]_vars

C17_Witness ==
    /\ gesture = "restart"
    /\ NotStarted
    /\ remaining_time = InitialTime
    /\ feedback = <<"Press Start to begin!">>



(***************************************************************************)
(* A running round under the scheduling of its frames: update asks for a   *)
(* repaint at the end of every frame, so frames keep coming, and the clock *)
(* that elapsed is read from keeps advancing.  The round is taken up in a  *)
(* frame where it runs with LiveTime seconds left and nothing answered     *)
(* yet, and followed until it is over.                                     *)
(***************************************************************************)
LiveInit ==
    /\ \E p \in generate_problem(0) :
        /\ question = p.question
        /\ answer = p.answer
        /\ is_pemdas = p.is_pemdas
    /\ user_input = <<>>
    /\ score = 0
    /\ correct_answers = 0
    /\ wrong_answers = 0
    /\ remaining_time = LiveTime
    /\ start_time = "Some"
    /\ feedback = <<"Solve the problems!">>
    /\ game_over = FALSE
    /\ pc = "update"
    /\ gesture = "none"
    /\ num1 = 0 /\ num2 = 0 /\ num3 = 0

\* a timer step in which time has passed
TickPositive ==
    /\ Tick
    /\ start_time = "Some" => (game_over' \/ remaining_time' < remaining_time)

\* the frames of a round from the time it runs: no Start, and no Restart
RoundNext ==
    \/ Tick
    \/ TypeText
    \/ SubmitAnswer
    \/ NoGesture

LiveSpec ==
    LiveInit /\ [][RoundNext]_vars /\ WF_vars(RoundNext) /\ SF_vars(TickPositive)

\* C18: when frames keep coming, time keeps passing and the correct answers
\* of the round are finitely many, a running round is eventually over.
C18_RoundEnds == Running ~> GameOver

C18_Witness ==
    /\ game_over
    /\ pc = "panel"
    /\ score = MaxScore
    /\ remaining_time > 0


\* C19: handling Enter changes neither game_over nor the countdown's being
\* armed, also when it leaves remaining_time at 0; game_over becomes true
\* only in the timer step of a frame in which the countdown is armed, and
\* false again only in a frame that handles Restart.
C19_OnlyTickEndsRound ==
    [][/\ Entered => (game_over' = game_over /\ start_time' = start_time)
       /\ (~game_over /\ game_over') => (pc = "update" /\ start_time = "Some")
       /\ (game_over /\ ~game_over') => gesture' = "restart"]_vars

C19_Witness ==
    /\ pc = "update"
    /\ gesture = "enter"
    /\ ~game_over
    /\ start_time = "Some"
    /\ remaining_time = 0
    /\ feedback = <<"Invalid input. Try again!">>


\* C20: in every state the app reaches the problem shown is one that
\* generate_problem returns for the current score; a compound problem is
\* shown only at score 5 or more, and up to score 5 the score is the number
\* of correct answers.
C20_ProblemOfCurrentTier ==
    /\ currentProblem \in SampleProblems[score]
    /\ is_pemdas => score >= 5
    /\ score <= 5 => score = correct_answers

C20_Witness ==
    /\ score = 5
    /\ correct_answers = 5
    /\ is_pemdas

====
